---------------------------- MODULE Spec2Model ----------------------------
(*
  nl2sql_location: natural-language question -> SQL (Gemini) -> BigQuery ->
  summary (Gemini) -> Streamlit display.

  Four specifications over one set of variables:
    SpecGateway  call_gemini_api, one step per generation request / sleep
    SpecFormat   generate_sql_query's text path: the model's response, stripped by
                 call_gemini_api, through format_sql_query
    SpecSummary  summarize_results' text path: the model's response, stripped by
                 call_gemini_api, through clean_summary_text
    Spec         app.py: script runs over the Streamlit session state

  Text is a sequence of characters.  A character is a one-character string;
  characters that cannot be written in a TLA+ string are named by their code
  point ("U+00E9").  Ord gives the code point.
*)
EXTENDS Naturals, Integers, Sequences, FiniteSets, TLC

VARIABLES
    \* ---- call_gemini_api (src/generate_sql_query.py:8, src/execute_sql_and_summarize.py:9)
    gw_pc,        \* "idle" | "request" | "sleeping" | "returned" | "raised"
    gw_module,    \* which copy of call_gemini_api is running
    retry,        \* the loop variable of `for retry in range(max_retries)`
    gw_log,       \* external effects so far: generate_content calls and time.sleep calls
    gw_result,    \* the returned text, or the raised exception
    \* ---- generate_sql_query: call_gemini_api's response, then format_sql_query
    fmt_pc,              \* "input" | "done"
    sql_response,        \* response.text of the model
    raw_sql_query,       \* what call_gemini_api returned
    formatted_sql_query, \* what format_sql_query returned
    \* ---- summarize_results: call_gemini_api's response, then clean_summary_text
    sum_pc,              \* "input" | "done"
    sum_response,        \* response.text of the model
    summary_text,        \* what call_gemini_api returned
    cleaned_summary,     \* what clean_summary_text returned
    \* ---- app.py
    pc,           \* position of the script run
    prompt_input, \* value of the st.text_input widget
    session,      \* st.session_state: user_prompt, sql_query, rows, summary, df
    local,        \* the script's local variables sql_query, rows, summary
    cache,        \* st.cache_data stores of get_sql_query, get_results, get_summary
    json_loaded,  \* load_json_files has a cached result
    screen,       \* what the run has rendered so far
    origin,       \* history: the user_prompt of the run that assigned each session entry
    stage_log     \* history: the stages this run has executed

gwVars  == <<gw_pc, gw_module, retry, gw_log, gw_result>>
fmtVars == <<fmt_pc, sql_response, raw_sql_query, formatted_sql_query>>
sumVars == <<sum_pc, sum_response, summary_text, cleaned_summary>>
appVars == <<pc, prompt_input, session, local, cache, json_loaded, screen, origin, stage_log>>
vars    == <<gwVars, fmtVars, sumVars, appVars>>

--------------------------------------------------------------------------
(* Characters and Python's str primitives *)

\* Code points of the characters the model uses.
Ord ==
    ( " " :> 32 @@ "\n" :> 10 @@ "\r" :> 13 @@ "\t" :> 9 @@ "U+0007" :> 7 @@ "U+001B" :> 27 @@ "U+007F" :> 127 @@ "U+00A0" :> 160
      @@ "U+00E9" :> 233 @@ "U+2028" :> 8232 @@ "U+0060" :> 96
      @@ "-" :> 45 @@ "/" :> 47 @@ "*" :> 42 @@ ";" :> 59 @@ "'" :> 39 @@ "=" :> 61 @@ "$" :> 36 @@ "." :> 46
      @@ "_" :> 95 @@ "," :> 44 @@ "(" :> 40 @@ ")" :> 41 @@ "<" :> 60 @@ ">" :> 62
      @@ "0" :> 48 @@ "1" :> 49 @@ "2" :> 50 @@ "3" :> 51 @@ "4" :> 52 @@ "5" :> 53 @@ "6" :> 54 @@ "7" :> 55
      @@ "8" :> 56 @@ "9" :> 57
      @@ "a" :> 97 @@ "b" :> 98 @@ "c" :> 99 @@ "d" :> 100 @@ "e" :> 101 @@ "f" :> 102 @@ "g" :> 103 @@ "h" :> 104
      @@ "i" :> 105 @@ "j" :> 106 @@ "k" :> 107 @@ "l" :> 108 @@ "m" :> 109 @@ "n" :> 110 @@ "o" :> 111 @@ "p" :> 112
      @@ "q" :> 113 @@ "r" :> 114 @@ "s" :> 115 @@ "t" :> 116 @@ "u" :> 117 @@ "v" :> 118 @@ "w" :> 119 @@ "x" :> 120
      @@ "y" :> 121 @@ "z" :> 122
      @@ "A" :> 65 @@ "B" :> 66 @@ "C" :> 67 @@ "D" :> 68 @@ "E" :> 69 @@ "F" :> 70 @@ "G" :> 71 @@ "H" :> 72
      @@ "I" :> 73 @@ "J" :> 74 @@ "K" :> 75 @@ "L" :> 76 @@ "M" :> 77 @@ "N" :> 78 @@ "O" :> 79 @@ "P" :> 80
      @@ "Q" :> 81 @@ "R" :> 82 @@ "S" :> 83 @@ "T" :> 84 @@ "U" :> 85 @@ "V" :> 86 @@ "W" :> 87 @@ "X" :> 88
      @@ "Y" :> 89 @@ "Z" :> 90 )

\* str.isspace(): the characters str.split() and str.strip() treat as whitespace.
IsSpace(c) ==
    Ord[c] \in ({9, 10, 11, 12, 13, 28, 29, 30, 31, 32, 133, 160, 5760, 8232, 8233,
                 8239, 8287, 12288} \cup (8192 .. 8202))

\* s[i .. i+Len(pat)-1] = pat
StartsWithAt(s, i, pat) ==
    /\ i + Len(pat) - 1 <= Len(s)
    /\ \A k \in 1 .. Len(pat) : s[i + k - 1] = pat[k]

\* pat occurs in s
Contains(s, pat) == \E i \in 1 .. Len(s) : StartsWithAt(s, i, pat)

\* str.replace(old, new): the non-overlapping occurrences of old, left to right.
RECURSIVE ReplaceFrom(_, _, _, _)
ReplaceFrom(s, old, new, i) ==
    IF i > Len(s) THEN <<>>
    ELSE IF StartsWithAt(s, i, old)
         THEN new \o ReplaceFrom(s, old, new, i + Len(old))
         ELSE <<s[i]>> \o ReplaceFrom(s, old, new, i + 1)

str_replace(s, old, new) == ReplaceFrom(s, old, new, 1)

\* str.strip(): leading and trailing whitespace removed.
str_strip(s) ==
    LET keep == {i \in 1 .. Len(s) : ~IsSpace(s[i])}
    IN  IF keep = {} THEN <<>>
        ELSE LET lo == CHOOSE i \in keep : \A j \in keep : i <= j
                 hi == CHOOSE i \in keep : \A j \in keep : j <= i
             IN  SubSeq(s, lo, hi)

\* str.split(sep): the pieces between the occurrences of the one-character sep.
RECURSIVE SplitFrom(_, _, _, _)
SplitFrom(s, sep, i, cur) ==
    IF i > Len(s) THEN <<cur>>
    ELSE IF s[i] = sep
         THEN <<cur>> \o SplitFrom(s, sep, i + 1, <<>>)
         ELSE SplitFrom(s, sep, i + 1, Append(cur, s[i]))

str_split(s, sep) == SplitFrom(s, sep, 1, <<>>)

\* str.split(): the maximal runs of non-whitespace characters.
RECURSIVE WordsFrom(_, _, _)
WordsFrom(s, i, cur) ==
    IF i > Len(s) THEN (IF cur = <<>> THEN <<>> ELSE <<cur>>)
    ELSE IF IsSpace(s[i])
         THEN (IF cur = <<>> THEN <<>> ELSE <<cur>>) \o WordsFrom(s, i + 1, <<>>)
         ELSE WordsFrom(s, i + 1, Append(cur, s[i]))

str_split_ws(s) == WordsFrom(s, 1, <<>>)

\* sep.join(parts)
RECURSIVE str_join(_, _)
str_join(sep, parts) ==
    IF parts = <<>> THEN <<>>
    ELSE IF Len(parts) = 1 THEN parts[1]
    ELSE parts[1] \o sep \o str_join(sep, Tail(parts))

\* text.encode('ascii', 'ignore').decode('ascii'): code points above 127 dropped.
IsAscii(c) == Ord[c] < 128

\* Faulty variant: the text is not encoded.
encode_ascii_keep(s) == s

encode_ascii_ignore(s) == SelectSeq(s, IsAscii)

\* re.sub(r"--.*\n", "", s): "." does not match a newline, so a match runs from
\* "--" to the first newline after it; without a later newline there is no match.
RECURSIVE SubLineFrom(_, _)
SubLineFrom(s, i) ==
    IF i > Len(s) THEN <<>>
    ELSE LET nl == {j \in (i + 2) .. Len(s) : s[j] = "\n"}
         IN  IF StartsWithAt(s, i, <<"-", "-">>) /\ nl # {}
             THEN SubLineFrom(s, (CHOOSE j \in nl : \A k \in nl : j <= k) + 1)
             ELSE <<s[i]>> \o SubLineFrom(s, i + 1)

re_sub_line_comments(s) == SubLineFrom(s, 1)

\* re.sub(r"/\*[\s\S]*?\*/", "", s): non-greedy, from "/*" to the first "*/"
\* that starts after it.
RECURSIVE SubBlockFrom(_, _)
SubBlockFrom(s, i) ==
    IF i > Len(s) THEN <<>>
    ELSE LET cl == {j \in (i + 2) .. Len(s) : StartsWithAt(s, j, <<"*", "/">>)}
         IN  IF StartsWithAt(s, i, <<"/", "*">>) /\ cl # {}
             THEN SubBlockFrom(s, (CHOOSE j \in cl : \A k \in cl : j <= k) + 2)
             ELSE <<s[i]>> \o SubBlockFrom(s, i + 1)

re_sub_block_comments(s) == SubBlockFrom(s, 1)

--------------------------------------------------------------------------
(* format_sql_query, src/generate_sql_query.py:77-91 *)

\* "U+0060" is the backtick.
FENCE_SQL == <<"U+0060", "U+0060", "U+0060", "s", "q", "l">>
FENCE     == <<"U+0060", "U+0060", "U+0060">>

\* line 79
strip_fences(raw) == str_strip(str_replace(str_replace(raw, FENCE_SQL, <<>>), FENCE, <<>>))

\* lines 82-83
remove_comments(s) == re_sub_block_comments(re_sub_line_comments(s))

\* Faulty variant: the terminator is not appended again.
first_statement_unterminated(s) == str_split(s, ";")[1]

\* line 86
first_statement(s) == Append(str_split(s, ";")[1], ";")

\* Faulty variant: only the ends are trimmed.
collapse_whitespace_strip_only(s) == str_strip(s)

\* line 89
collapse_whitespace(s) == str_join(<<" ">>, str_split_ws(s))

format_sql_query(raw) ==
    collapse_whitespace(first_statement(remove_comments(strip_fences(raw))))

--------------------------------------------------------------------------
(* clean_summary_text, src/execute_sql_and_summarize.py:76-84 *)

\* line 78
newlines_to_spaces(text) == str_replace(str_replace(text, <<"\n">>, <<" ">>), <<"\r">>, <<" ">>)

clean_summary_text(text) ==
    encode_ascii_ignore(collapse_whitespace(newlines_to_spaces(text)))

--------------------------------------------------------------------------
(* Values the variables of a specification that is not running are held at *)

GwOff  == /\ gw_pc = "off" /\ gw_module = "none" /\ retry = 0
          /\ gw_log = <<>> /\ gw_result = [kind |-> "none"]
FmtOff == /\ fmt_pc = "off" /\ sql_response = <<>>
          /\ raw_sql_query = <<>> /\ formatted_sql_query = <<>>
SumOff == /\ sum_pc = "off" /\ sum_response = <<>>
          /\ summary_text = <<>> /\ cleaned_summary = <<>>

--------------------------------------------------------------------------
(* call_gemini_api, src/generate_sql_query.py:8-45 and its copy
   src/execute_sql_and_summarize.py:9-46 *)

max_retries    == 10
backoff_factor == 2

RECURSIVE Pow(_, _)
Pow(b, n) == IF n = 0 THEN 1 ELSE b * Pow(b, n - 1)

GatewayModules == {"generate_sql_query", "execute_sql_and_summarize"}

\* Texts the service may answer with (response.text), before .strip().
GatewayTexts == { <<"a">>, <<" ", "a", " ", "b", "\n">>, <<>> }

\* Faulty variant: the last iteration retries too.
can_retry_off_by_one(r) == r < max_retries

\* `if retry < max_retries - 1`
can_retry(r) == r < max_retries - 1

\* Faulty variant: linear instead of exponential backoff.
sleep_time_linear(r) == backoff_factor * r

\* `sleep_time = backoff_factor ** retry`
sleep_time(r) == Pow(backoff_factor, r)

RequestEvent(outcome, text) ==
    [op |-> "generate_content", attempt |-> retry + 1, outcome |-> outcome, text |-> text]
SleepEvent(seconds) ==
    [op |-> "sleep", attempt |-> retry + 1, outcome |-> "slept", seconds |-> seconds]

\* The call enters the loop with retry = 0.
GatewayCall ==
    /\ gw_pc = "idle"
    /\ gw_pc' = "request"
    /\ retry' = 0
    /\ UNCHANGED <<gw_module, gw_log, gw_result>>
    /\ UNCHANGED <<fmtVars, sumVars, appVars>>

\* generate_content answers; the stripped text is returned.
RequestSucceeds ==
    /\ gw_pc = "request"
    /\ \E t \in GatewayTexts :
        /\ gw_log' = Append(gw_log, RequestEvent("ok", t))
        /\ gw_result' = [kind |-> "text", text |-> str_strip(t)]
    /\ gw_pc' = "returned"
    /\ UNCHANGED <<gw_module, retry>>
    /\ UNCHANGED <<fmtVars, sumVars, appVars>>

\* generate_content raises ResourceExhausted: sleep and retry, or re-raise on
\* the last iteration.
RequestRateLimited ==
    /\ gw_pc = "request"
    /\ gw_log' = Append(gw_log, RequestEvent("ResourceExhausted", <<>>))
    /\ IF can_retry(retry)
       THEN /\ gw_pc' = "sleeping"
            /\ UNCHANGED gw_result
       ELSE /\ gw_pc' = "raised"
            /\ gw_result' = [kind |-> "ResourceExhausted"]
    /\ UNCHANGED <<gw_module, retry>>
    /\ UNCHANGED <<fmtVars, sumVars, appVars>>

\* time.sleep(sleep_time); continue
BackoffSleep ==
    /\ gw_pc = "sleeping"
    /\ gw_log' = Append(gw_log, SleepEvent(sleep_time(retry)))
    /\ retry' = retry + 1
    /\ gw_pc' = "request"
    /\ UNCHANGED <<gw_module, gw_result>>
    /\ UNCHANGED <<fmtVars, sumVars, appVars>>

\* Faulty variant: any failure is retried like a rate-limit signal.
RequestFails_retried ==
    /\ gw_pc = "request"
    /\ gw_log' = Append(gw_log, RequestEvent("Exception", <<>>))
    /\ IF can_retry(retry)
       THEN /\ gw_pc' = "sleeping"
            /\ UNCHANGED gw_result
       ELSE /\ gw_pc' = "raised"
            /\ gw_result' = [kind |-> "Exception"]
    /\ UNCHANGED <<gw_module, retry>>
    /\ UNCHANGED <<fmtVars, sumVars, appVars>>

\* generate_content (or response.text) raises anything else: re-raised at once.
RequestFails ==
    /\ gw_pc = "request"
    /\ gw_log' = Append(gw_log, RequestEvent("Exception", <<>>))
    /\ gw_pc' = "raised"
    /\ gw_result' = [kind |-> "Exception"]
    /\ UNCHANGED <<gw_module, retry>>
    /\ UNCHANGED <<fmtVars, sumVars, appVars>>

--------------------------------------------------------------------------
(* generate_sql_query's text path, src/generate_sql_query.py:70-75 *)

MaxPieces == 4

\* "U+0060" is the backtick.
SqlPieces ==
    << FENCE_SQL, FENCE, <<"-", "-">>, <<"/", "*">>, <<"*", "/">>,
       <<";">>, <<"\n">>, <<" ">>, <<"a">> >>

\* Every text made of at most n pieces.
RECURSIVE TextsOfPieces(_)
TextsOfPieces(n) ==
    IF n = 0 THEN { <<>> }
    ELSE LET shorter == TextsOfPieces(n - 1)
         IN  shorter \cup { t \o SqlPieces[i] : t \in shorter, i \in 1 .. Len(SqlPieces) }

PieceTexts == TextsOfPieces(MaxPieces)

\* The response of the round-trip scenario:
\* ```sql\nSELECT * FROM properties WHERE borough='Manhattan' ORDER BY price DESC LIMIT 10; -- done\n```
ManhattanQuery ==
    <<"S","E","L","E","C","T"," ","*"," ","F","R","O","M"," ",
      "p","r","o","p","e","r","t","i","e","s"," ","W","H","E","R","E"," ",
      "b","o","r","o","u","g","h","=","'","M","a","n","h","a","t","t","a","n","'"," ",
      "O","R","D","E","R"," ","B","Y"," ","p","r","i","c","e"," ","D","E","S","C"," ",
      "L","I","M","I","T"," ","1","0">>
ManhattanResponse ==
    FENCE_SQL \o <<"\n">> \o ManhattanQuery
        \o <<";", " ", "-", "-", " ", "d", "o", "n", "e", "\n">> \o FENCE

\* A fenced response with a block comment, line comments and two statements:
\* ```sql\n/* top -- all */ SELECT a\nFROM t; -- first\nSELECT b;\n```
CommentedResponse ==
    FENCE_SQL \o <<"\n", "/", "*", " ", "t", "o", "p", " ", "-", "-", " ", "a", "l", "l", " ",
                   "*", "/", " ", "S", "E", "L", "E", "C", "T", " ", "a", "\n",
                   "F", "R", "O", "M", " ", "t", ";", " ", "-", "-", " ", "f", "i", "r", "s", "t", "\n",
                   "S", "E", "L", "E", "C", "T", " ", "b", ";", "\n">> \o FENCE

SqlResponses == PieceTexts \cup {ManhattanResponse, CommentedResponse}

\* raw_sql_query = call_gemini_api(full_prompt); format_sql_query(raw_sql_query)
GenerateSqlQuery ==
    /\ fmt_pc = "input"
    /\ raw_sql_query' = str_strip(sql_response)
    /\ formatted_sql_query' = format_sql_query(str_strip(sql_response))
    /\ fmt_pc' = "done"
    /\ UNCHANGED sql_response
    /\ UNCHANGED <<gwVars, sumVars, appVars>>

--------------------------------------------------------------------------
(* summarize_results' text path, src/execute_sql_and_summarize.py:68-74 *)

MaxSummaryLen == 4

SummaryAlphabet == {" ", "\n", "\r", "a", "U+00E9", "U+0007", "U+00A0"}

\* Every text of at most n characters.
RECURSIVE TextsOfLength(_)
TextsOfLength(n) ==
    IF n = 0 THEN { <<>> }
    ELSE LET shorter == TextsOfLength(n - 1)
         IN  shorter \cup { Append(t, c) : t \in shorter, c \in SummaryAlphabet }

SummaryResponses == TextsOfLength(MaxSummaryLen)

\* summary = call_gemini_api(summary_prompt); clean_summary_text(summary)
SummarizeResults ==
    /\ sum_pc = "input"
    /\ summary_text' = str_strip(sum_response)
    /\ cleaned_summary' = clean_summary_text(str_strip(sum_response))
    /\ sum_pc' = "done"
    /\ UNCHANGED sum_response
    /\ UNCHANGED <<gwVars, fmtVars, appVars>>

--------------------------------------------------------------------------
(* app.py: one script run per rerun, over st.session_state *)

\* The questions a user may type; "" is the empty text input.
Prompts == {"q1", "q2"}

\* Responses of the model to the SQL prompt and to the summary prompt.
AppSqlResponses     == { FENCE_SQL \o <<"\n", "a", ";", "\n">> \o FENCE, <<"b">> }
AppSummaryResponses == { <<"o", "k", "\n">> }

\* Rows a query may return: [dict(row) for row in results].  NULL stands for a
\* missing value; RowC comes from a query that selects the address only.
NULL   == "NULL"
RowA   == [address |-> "A", price |-> "2", latitude |-> "1", longitude |-> "1",
           bedrooms |-> "1", bathrooms |-> "1", date_listed |-> "d", square_feet |-> "9",
           property_type |-> "Office"]
RowB   == [address |-> "B", price |-> NULL, latitude |-> "1", longitude |-> "1",
           bedrooms |-> "1", bathrooms |-> "1", date_listed |-> "d", square_feet |-> "9",
           property_type |-> "Office"]
RowC   == [address |-> "C"]
ResultSets == { <<>>, <<RowB>>, <<RowA, RowB>>, <<RowC>> }

\* The columns stage 4 indexes (lines 160-161, 181-184, 193-204); a missing one
\* raises KeyError.
FrameColumns ==
    {"price", "latitude", "longitude", "bedrooms", "bathrooms", "date_listed",
     "square_feet", "property_type", "address"}
Columns(rows) == UNION {DOMAIN rows[i] : i \in 1 .. Len(rows)}

\* Stage 4, lines 157-205: pd.to_numeric(errors='coerce') and the dropna calls keep
\* the rows with a price, a latitude and a longitude.
HasCoordinatesAndPrice(row) ==
    row.price # NULL /\ row.latitude # NULL /\ row.longitude # NULL
PrepareDataFrame(rows) == SelectSeq(rows, HasCoordinatesAndPrice)

\* Lines 98-109.
InitialSession ==
    [user_prompt |-> "", sql_query |-> <<>>, rows |-> <<>>, summary |-> <<>>,
     df |-> <<>>, selected_indices |-> <<>>]

BlankScreen == [error |-> "", shown |-> {}, summary_of |-> "", map_of |-> ""]

\* get_sql_query (lines 82-84): the cached value, or generate_sql_query's outcomes.
get_sql_query(user_prompt) ==
    IF user_prompt \in DOMAIN cache.sql
    THEN { [ok |-> TRUE, value |-> cache.sql[user_prompt]] }
    ELSE { [ok |-> TRUE, value |-> format_sql_query(str_strip(t))] : t \in AppSqlResponses }
         \cup { [ok |-> FALSE, value |-> <<>>] }

\* get_results (lines 87-90): the cached value, or execute_sql_query's outcomes.
get_results(sql_query) ==
    IF sql_query \in DOMAIN cache.rows
    THEN { [ok |-> TRUE, value |-> cache.rows[sql_query]] }
    ELSE { [ok |-> TRUE, value |-> r] : r \in ResultSets }
         \cup { [ok |-> FALSE, value |-> <<>>] }

\* get_summary (lines 93-95): the cached value, or summarize_results' outcomes.
get_summary(sql_query, rows) ==
    IF <<sql_query, rows>> \in DOMAIN cache.summary
    THEN { [ok |-> TRUE, value |-> cache.summary[<<sql_query, rows>>]] }
    ELSE { [ok |-> TRUE, value |-> clean_summary_text(str_strip(t))] : t \in AppSummaryResponses }
         \cup { [ok |-> FALSE, value |-> <<>>] }

\* st.cache_data keeps a returned value under the call's arguments.
Remember(store, key, value) ==
    IF key \in DOMAIN store THEN store ELSE (key :> value) @@ store

\* st.error(message); st.stop()
ErrorAndStop(message) ==
    /\ screen' = [screen EXCEPT !.error = message]
    /\ pc' = "idle"

StageEntry(stage, input, ok, output) ==
    [stage |-> stage, input |-> input, ok |-> ok, output |-> output]

\* A rerun: the user submits the text input (a new or the same question), or
\* touches another widget, or reruns the page.  The script starts from the top,
\* once the run before it has ended.
Rerun ==
    /\ pc = "idle"
    /\ \E p \in Prompts \cup {""} : prompt_input' = p
    /\ pc' = "top"
    /\ screen' = BlankScreen
    /\ stage_log' = <<>>
    /\ local' = [sql_query |-> <<>>, rows |-> <<>>, summary |-> <<>>]
    /\ UNCHANGED <<session, cache, json_loaded, origin>>
    /\ UNCHANGED <<gwVars, fmtVars, sumVars>>

\* Lines 114, 211-212: no prompt, st.stop().
EmptyPromptStop ==
    /\ pc = "top"
    /\ prompt_input = ""
    /\ pc' = "idle"
    /\ UNCHANGED <<prompt_input, session, local, cache, json_loaded, screen, origin, stage_log>>
    /\ UNCHANGED <<gwVars, fmtVars, sumVars>>

\* Lines 28-39, 116: load_json_files fails to read a file; nothing is cached.
LoadJsonFails ==
    /\ pc = "top"
    /\ prompt_input # ""
    /\ ~json_loaded
    /\ ErrorAndStop("Error reading JSON files")
    /\ UNCHANGED <<prompt_input, session, local, cache, json_loaded, origin, stage_log>>
    /\ UNCHANGED <<gwVars, fmtVars, sumVars>>

\* Lines 118-120: a prompt other than the stored one.
NewPrompt ==
    /\ pc = "top"
    /\ prompt_input # ""
    /\ prompt_input # session.user_prompt
    /\ json_loaded' = TRUE
    /\ session' = [session EXCEPT !.user_prompt = prompt_input]
    /\ pc' = "stage1"
    /\ UNCHANGED <<prompt_input, local, cache, screen, origin, stage_log>>
    /\ UNCHANGED <<gwVars, fmtVars, sumVars>>

\* Lines 206-210: the stored prompt again; the stored values are used.
SamePrompt ==
    /\ pc = "top"
    /\ prompt_input # ""
    /\ prompt_input = session.user_prompt
    /\ json_loaded' = TRUE
    /\ local' = [local EXCEPT !.sql_query = session.sql_query, !.summary = session.summary]
    /\ pc' = "display"
    /\ UNCHANGED <<prompt_input, session, cache, screen, origin, stage_log>>
    /\ UNCHANGED <<gwVars, fmtVars, sumVars>>

\* Lines 122-133, get_sql_query returns.
GenerateSucceeds ==
    /\ pc = "stage1"
    /\ \E r \in get_sql_query(prompt_input) :
        /\ r.ok
        /\ local' = [local EXCEPT !.sql_query = r.value]
        /\ session' = [session EXCEPT !.sql_query = r.value]
        /\ cache' = [cache EXCEPT !.sql = Remember(cache.sql, prompt_input, r.value)]
        /\ stage_log' = Append(stage_log, StageEntry("generate", prompt_input, TRUE, r.value))
    /\ origin' = [origin EXCEPT !.sql_query = session.user_prompt]
    /\ screen' = [screen EXCEPT !.shown = @ \cup {"sql_query"}]
    /\ pc' = "stage2"
    /\ UNCHANGED <<prompt_input, json_loaded>>
    /\ UNCHANGED <<gwVars, fmtVars, sumVars>>

\* Lines 128-130, get_sql_query raises.
GenerateFails ==
    /\ pc = "stage1"
    /\ \E r \in get_sql_query(prompt_input) : ~r.ok
    /\ stage_log' = Append(stage_log, StageEntry("generate", prompt_input, FALSE, <<>>))
    /\ ErrorAndStop("Error generating SQL query")
    /\ UNCHANGED <<prompt_input, session, local, cache, json_loaded, origin>>
    /\ UNCHANGED <<gwVars, fmtVars, sumVars>>

\* Lines 135-144, get_results returns.
ExecuteSucceeds ==
    /\ pc = "stage2"
    /\ \E r \in get_results(local.sql_query) :
        /\ r.ok
        /\ local' = [local EXCEPT !.rows = r.value]
        /\ session' = [session EXCEPT !.rows = r.value]
        /\ cache' = [cache EXCEPT !.rows = Remember(cache.rows, local.sql_query, r.value)]
        /\ stage_log' = Append(stage_log, StageEntry("execute", local.sql_query, TRUE, r.value))
    /\ origin' = [origin EXCEPT !.rows = session.user_prompt]
    /\ pc' = "stage3"
    /\ UNCHANGED <<prompt_input, json_loaded, screen>>
    /\ UNCHANGED <<gwVars, fmtVars, sumVars>>

\* Faulty variant: st.error without st.stop().
ExecuteFails_continues ==
    /\ pc = "stage2"
    /\ \E r \in get_results(local.sql_query) : ~r.ok
    /\ stage_log' = Append(stage_log, StageEntry("execute", local.sql_query, FALSE, <<>>))
    /\ screen' = [screen EXCEPT !.error = "Error executing SQL query"]
    /\ pc' = "stage3"
    /\ UNCHANGED <<prompt_input, session, local, cache, json_loaded, origin>>
    /\ UNCHANGED <<gwVars, fmtVars, sumVars>>

\* Lines 141-143, get_results raises.
ExecuteFails ==
    /\ pc = "stage2"
    /\ \E r \in get_results(local.sql_query) : ~r.ok
    /\ stage_log' = Append(stage_log, StageEntry("execute", local.sql_query, FALSE, <<>>))
    /\ ErrorAndStop("Error executing SQL query")
    /\ UNCHANGED <<prompt_input, session, local, cache, json_loaded, origin>>
    /\ UNCHANGED <<gwVars, fmtVars, sumVars>>

\* Lines 146-150, get_summary returns.
SummarizeSucceeds ==
    /\ pc = "stage3"
    /\ \E r \in get_summary(local.sql_query, local.rows) :
        /\ r.ok
        /\ local' = [local EXCEPT !.summary = r.value]
        /\ session' = [session EXCEPT !.summary = r.value]
        /\ cache' = [cache EXCEPT !.summary =
                        Remember(cache.summary, <<local.sql_query, local.rows>>, r.value)]
        /\ stage_log' = Append(stage_log,
              StageEntry("summarize", <<local.sql_query, local.rows>>, TRUE, r.value))
    /\ origin' = [origin EXCEPT !.summary = session.user_prompt]
    /\ pc' = "stage4"
    /\ UNCHANGED <<prompt_input, json_loaded, screen>>
    /\ UNCHANGED <<gwVars, fmtVars, sumVars>>

\* Lines 151-153, get_summary raises.
SummarizeFails ==
    /\ pc = "stage3"
    /\ \E r \in get_summary(local.sql_query, local.rows) : ~r.ok
    /\ stage_log' = Append(stage_log,
          StageEntry("summarize", <<local.sql_query, local.rows>>, FALSE, <<>>))
    /\ ErrorAndStop("Error summarizing results")
    /\ UNCHANGED <<prompt_input, session, local, cache, json_loaded, origin>>
    /\ UNCHANGED <<gwVars, fmtVars, sumVars>>

\* Lines 155-205: the data frame is rebuilt only `if st.session_state.rows`; a
\* missing column raises out of the script, which ends the run.
PrepareFrame ==
    /\ pc = "stage4"
    /\ IF session.rows = <<>>
       THEN /\ pc' = "display"
            /\ UNCHANGED <<session, origin, screen>>
       ELSE IF FrameColumns \subseteq Columns(session.rows)
       THEN /\ session' = [session EXCEPT !.df = PrepareDataFrame(session.rows)]
            /\ origin' = [origin EXCEPT !.df = session.user_prompt]
            /\ pc' = "display"
            /\ UNCHANGED screen
       ELSE /\ ErrorAndStop("KeyError")
            /\ UNCHANGED <<session, origin>>
    /\ UNCHANGED <<prompt_input, local, cache, json_loaded, stage_log>>
    /\ UNCHANGED <<gwVars, fmtVars, sumVars>>

\* Lines 214-315: the summary, then the map of session_state.df or the warning.
Display ==
    /\ pc = "display"
    /\ screen' = [screen EXCEPT
                    !.shown = @ \cup {"summary"}
                                \cup (IF session.df # <<>> THEN {"map"} ELSE {"no_results"}),
                    !.summary_of = origin.summary,
                    !.map_of = IF session.df # <<>> THEN origin.df ELSE ""]
    /\ pc' = "idle"
    /\ UNCHANGED <<prompt_input, session, local, cache, json_loaded, origin, stage_log>>
    /\ UNCHANGED <<gwVars, fmtVars, sumVars>>

AppOff ==
    /\ pc = "off" /\ prompt_input = "" /\ session = InitialSession
    /\ local = [sql_query |-> <<>>, rows |-> <<>>, summary |-> <<>>]
    /\ cache = [sql |-> <<>>, rows |-> <<>>, summary |-> <<>>]
    /\ json_loaded = FALSE /\ screen = BlankScreen
    /\ origin = [sql_query |-> "", rows |-> "", summary |-> "", df |-> ""]
    /\ stage_log = <<>>

--------------------------------------------------------------------------
(* Specifications *)

Init ==
    /\ pc = "idle" /\ prompt_input = "" /\ session = InitialSession
    /\ local = [sql_query |-> <<>>, rows |-> <<>>, summary |-> <<>>]
    /\ cache = [sql |-> <<>>, rows |-> <<>>, summary |-> <<>>]
    /\ json_loaded = FALSE /\ screen = BlankScreen
    /\ origin = [sql_query |-> "", rows |-> "", summary |-> "", df |-> ""]
    /\ stage_log = <<>>
    /\ GwOff /\ FmtOff /\ SumOff

Next ==
    \/ Rerun
    \/ EmptyPromptStop
    \/ LoadJsonFails
    \/ NewPrompt
    \/ SamePrompt
    \/ GenerateSucceeds
    \/ GenerateFails
    \/ ExecuteSucceeds
    \/ ExecuteFails
    \/ SummarizeSucceeds
    \/ SummarizeFails
    \/ PrepareFrame
    \/ Display

Spec == Init /\ [][Next]_vars

InitGateway ==
    /\ gw_pc = "idle" /\ gw_module \in GatewayModules /\ retry = 0
    /\ gw_log = <<>> /\ gw_result = [kind |-> "none"]
    /\ FmtOff /\ SumOff /\ AppOff

NextGateway ==
    \/ GatewayCall
    \/ RequestSucceeds
    \/ RequestRateLimited
    \/ BackoffSleep
    \/ RequestFails

SpecGateway == InitGateway /\ [][NextGateway]_vars

InitFormat ==
    /\ fmt_pc = "input" /\ sql_response \in SqlResponses
    /\ raw_sql_query = <<>> /\ formatted_sql_query = <<>>
    /\ GwOff /\ SumOff /\ AppOff

NextFormat == GenerateSqlQuery

SpecFormat == InitFormat /\ [][NextFormat]_vars

InitSummary ==
    /\ sum_pc = "input" /\ sum_response \in SummaryResponses
    /\ summary_text = <<>> /\ cleaned_summary = <<>>
    /\ GwOff /\ FmtOff /\ AppOff

NextSummary == SummarizeResults

SpecSummary == InitSummary /\ [][NextSummary]_vars

--------------------------------------------------------------------------
(* Claims about call_gemini_api, checked under SpecGateway *)

IsRequest(e) == e.op = "generate_content"
IsSleep(e)   == e.op = "sleep"
IsRateLimited(e) == e.op = "generate_content" /\ e.outcome = "ResourceExhausted"
GatewayDone  == gw_pc \in {"returned", "raised"}
Min(a, b)    == IF a <= b THEN a ELSE b

\* C1: a call makes at most 10 generation requests.  A call whose request k
\* succeeds has seen only rate-limit signals on requests 1..k-1 and returns the
\* (trimmed) text of request k; a call whose 10 requests were all rate limited
\* raises ResourceExhausted right after the 10th request.
C1_AtMostTenRequests ==
    LET reqs == SelectSeq(gw_log, IsRequest)
        k    == Len(reqs)
    IN  /\ k <= 10
        /\ \A i \in 1 .. k : reqs[i].attempt = i
        /\ (k > 0 /\ reqs[k].outcome = "ok") =>
              /\ gw_pc = "returned"
              /\ gw_result = [kind |-> "text", text |-> str_strip(reqs[k].text)]
              /\ \A i \in 1 .. k - 1 : IsRateLimited(reqs[i])
        /\ gw_pc = "returned" => (k > 0 /\ reqs[k].outcome = "ok")
        /\ (k = 10 /\ \A i \in 1 .. 10 : IsRateLimited(reqs[i])) =>
              /\ gw_pc = "raised"
              /\ gw_result = [kind |-> "ResourceExhausted"]
              /\ gw_log[Len(gw_log)] = reqs[10]

\* Nine rate-limit signals, then the tenth request succeeds and its text is returned.
C1_Witness ==
    /\ gw_pc = "returned"
    /\ Len(SelectSeq(gw_log, IsRequest)) = 10
    /\ gw_result = [kind |-> "text", text |-> <<"a", " ", "b">>]

\* C2: after f rate-limit signals the call has retried min(f, 9) times; the
\* n-th sleep (from 0) lasts 2^n seconds; every sleep directly follows a
\* rate-limited request and is directly followed by the next request; a
\* finished call's last effect is a request, never a sleep.
C2_BackoffSchedule ==
    LET reqs   == SelectSeq(gw_log, IsRequest)
        sleeps == SelectSeq(gw_log, IsSleep)
        f      == Len(SelectSeq(gw_log, IsRateLimited))
        delays == <<1, 2, 4, 8, 16, 32, 64, 128, 256>>
    IN  /\ Len(sleeps) <= 9
        /\ \A n \in 1 .. Len(sleeps) : sleeps[n].seconds = delays[n]
        /\ \A i \in 1 .. Len(gw_log) :
              IsSleep(gw_log[i]) =>
                 /\ i > 1 /\ IsRateLimited(gw_log[i - 1])
                 /\ i < Len(gw_log) => IsRequest(gw_log[i + 1])
        /\ GatewayDone =>
              /\ Len(sleeps) = Min(f, 9)
              /\ Len(reqs) - 1 = Min(f, 9)
              /\ IsRequest(gw_log[Len(gw_log)])
        /\ gw_pc = "request" => Len(sleeps) = f /\ Len(reqs) = f
        /\ gw_pc = "sleeping" => Len(sleeps) = f - 1

\* Ten rate-limit signals: nine sleeps of 1 .. 256 seconds, none after the last request.
C2_Witness ==
    /\ gw_pc = "raised"
    /\ gw_result = [kind |-> "ResourceExhausted"]
    /\ Len(SelectSeq(gw_log, IsSleep)) = 9
    /\ SelectSeq(gw_log, IsSleep)[9].seconds = 256

\* C3: a failure other than the rate-limit signal ends the call at once: it is
\* the last effect of the call (no request and no sleep after it), the call has
\* raised it, and on the first attempt nothing was retried.
C3_OtherFailurePropagates ==
    \A i \in 1 .. Len(gw_log) :
        gw_log[i].outcome = "Exception" =>
            /\ i = Len(gw_log)
            /\ gw_pc = "raised"
            /\ gw_result = [kind |-> "Exception"]
            /\ gw_log[i].attempt = 1 => Len(gw_log) = 1

\* Two rate-limit signals, then another failure on the third request.
C3_Witness ==
    /\ gw_pc = "raised"
    /\ gw_result = [kind |-> "Exception"]
    /\ Len(SelectSeq(gw_log, IsRequest)) = 3
    /\ Len(SelectSeq(gw_log, IsSleep)) = 2

--------------------------------------------------------------------------
(* Claims about format_sql_query, checked under SpecFormat *)

Count(s, c) == Cardinality({i \in 1 .. Len(s) : s[i] = c})

\* The response holds a fence, a line comment, a block comment and two terminators.
HasFenceCommentsAndStatements(raw) ==
    /\ Contains(raw, FENCE)
    /\ Contains(raw, <<"-", "-">>)
    /\ \E i \in 1 .. Len(raw) : \E j \in (i + 2) .. Len(raw) :
          StartsWithAt(raw, i, <<"/", "*">>) /\ StartsWithAt(raw, j, <<"*", "/">>)
    /\ Count(raw, ";") >= 2

\* C4: for a response with fences, line comments, block comments and several
\* statements, the formatted query holds no fence marker and no comment.
C4_NoFenceNoComment ==
    (fmt_pc = "done" /\ HasFenceCommentsAndStatements(sql_response)) =>
        /\ ~Contains(formatted_sql_query, FENCE)
        /\ ~Contains(formatted_sql_query, <<"-", "-">>)
        /\ ~Contains(formatted_sql_query, <<"/", "*">>)
        /\ ~Contains(formatted_sql_query, <<"*", "/">>)

\* C5: the formatted query is never empty and holds exactly one ';', its last
\* character, also for an empty, an all-whitespace or an unterminated response.
C5_OneTerminatorAtEnd ==
    fmt_pc = "done" =>
        /\ Len(formatted_sql_query) >= 1
        /\ formatted_sql_query[Len(formatted_sql_query)] = ";"
        /\ Count(formatted_sql_query, ";") = 1

\* A response without a terminator gets one appended.
C5_Witness ==
    /\ fmt_pc = "done"
    /\ Count(sql_response, ";") = 0
    /\ formatted_sql_query = <<"a", " ", "a", ";">>

\* The text before the first ';' of s (all of s without one).
TextBeforeTerminator(s) ==
    LET at == {i \in 1 .. Len(s) : s[i] = ";"}
    IN  IF at = {} THEN s
        ELSE SubSeq(s, 1, (CHOOSE i \in at : \A j \in at : i <= j) - 1)

\* s with every whitespace run turned into one space and none at either end.
RECURSIVE Squeeze(_, _, _)
Squeeze(s, started, gap) ==
    IF s = <<>> THEN <<>>
    ELSE IF IsSpace(Head(s)) THEN Squeeze(Tail(s), started, started)
    ELSE (IF gap THEN <<" ">> ELSE <<>>) \o <<Head(s)>> \o Squeeze(Tail(s), TRUE, FALSE)

Normalized(s) == Squeeze(s, FALSE, FALSE)

FirstStatementText == TextBeforeTerminator(remove_comments(strip_fences(raw_sql_query)))

\* C6 as stated: the output is the normalized text before the first terminator,
\* followed by one ';'.
C6_FirstStatementOnly ==
    fmt_pc = "done" =>
        formatted_sql_query = Append(Normalized(FirstStatementText), ";")

\* C6 as amended: whitespace is collapsed after the ';' is appended, so when the
\* text before the terminator ends in whitespace one space stays before the ';'.
\* The response of the round-trip scenario yields exactly the Manhattan query.
C6_FirstStatementThenCollapse ==
    fmt_pc = "done" =>
        LET pre == FirstStatementText
            spaced == /\ Normalized(pre) # <<>>
                      /\ IsSpace(pre[Len(pre)])
        IN  /\ formatted_sql_query =
                  Normalized(pre) \o (IF spaced THEN <<" ", ";">> ELSE <<";">>)
            /\ sql_response = ManhattanResponse =>
                  formatted_sql_query = Append(ManhattanQuery, ";")

\* The round-trip scenario: the trailing "-- done" and the fences are gone.
C6_Witness ==
    /\ fmt_pc = "done"
    /\ sql_response = ManhattanResponse
    /\ formatted_sql_query = Append(ManhattanQuery, ";")

--------------------------------------------------------------------------
(* Claims about clean_summary_text, checked under SpecSummary *)

IsPrintableAscii(c) == Ord[c] >= 32 /\ Ord[c] <= 126

C10_WhitespaceCollapsed ==
    sum_pc = "done" =>
        /\ ~Contains(cleaned_summary, <<" ", " ">>)
        /\ cleaned_summary # <<>> =>
              /\ ~IsSpace(cleaned_summary[1])
              /\ ~IsSpace(cleaned_summary[Len(cleaned_summary)])

--------------------------------------------------------------------------
(* Claims about app.py, checked under Spec *)

StageOrder == <<"generate", "execute", "summarize">>

StageErrors ==
    [generate  |-> "Error generating SQL query",
     execute   |-> "Error executing SQL query",
     summarize |-> "Error summarizing results"]

\* C8: within one run the stages are generate, execute, summarize in that
\* order, each at most once; a stage runs only after the one before it
\* returned, on that stage's output; a stage that raises ends the run with the
\* error of that stage on screen, and nothing runs after it.
C8_StagesInOrder ==
    LET n == Len(stage_log)
    IN  /\ n <= 3
        /\ \A i \in 1 .. n : stage_log[i].stage = StageOrder[i]
        /\ \A i \in 1 .. n - 1 : stage_log[i].ok
        /\ n >= 1 => stage_log[1].input = session.user_prompt
        /\ n >= 2 => stage_log[2].input = stage_log[1].output
        /\ n >= 3 => stage_log[3].input = <<stage_log[1].output, stage_log[2].output>>
        /\ pc = "stage1" => n = 0
        /\ pc = "stage2" => n = 1 /\ stage_log[1].ok
        /\ pc = "stage3" => n = 2 /\ stage_log[2].ok
        /\ pc = "stage4" => n = 3 /\ stage_log[3].ok
        /\ (n > 0 /\ ~stage_log[n].ok) =>
              /\ pc = "idle"
              /\ screen.error = StageErrors[stage_log[n].stage]
              /\ screen.shown \subseteq {"sql_query"}
        /\ \A st \in DOMAIN StageErrors :
              screen.error = StageErrors[st] =>
                  n > 0 /\ stage_log[n].stage = st /\ ~stage_log[n].ok

\* The query was generated, its execution raised, and the run stopped there.
C8_Witness ==
    /\ pc = "idle"
    /\ Len(stage_log) = 2
    /\ stage_log[1].ok /\ ~stage_log[2].ok
    /\ screen.error = "Error executing SQL query"

\* C9: between runs, whatever the session state holds (query, rows, summary,
\* data frame) was produced for the stored question, and so was what the last
\* run put on screen.
C9_SessionBelongsToLastPrompt ==
    LET FromEarlierQuestion(o) == o # "" /\ o # session.user_prompt
    IN  pc = "idle" =>
            /\ ~FromEarlierQuestion(origin.sql_query)
            /\ ~FromEarlierQuestion(origin.rows)
            /\ ~FromEarlierQuestion(origin.summary)
            /\ ~FromEarlierQuestion(origin.df)
            /\ "summary" \in screen.shown => ~FromEarlierQuestion(screen.summary_of)
            /\ "map" \in screen.shown => ~FromEarlierQuestion(screen.map_of)

==========================================================================
